---- MODULE Spec2Model ----
(***************************************************************************)
(* maths-vector-ts: a 2D Vector class whose arithmetic is delegated to an  *)
(* operator system (BaseOperatorSystem: native numbers, BigOperatorSystem: *)
(* big.js decimals).                                                       *)
(*                                                                         *)
(* State: the process-wide default Vector.SYSTEM, the Vector objects the   *)
(* caller holds (vecs), and what the last call returned or threw (ret).    *)
(*                                                                         *)
(* Values.  Every JavaScript value that can reach a coordinate is a record *)
(* [k, t, n, d]:                                                           *)
(*   k = "number"    a native number: t = "fin" (the rational n/d, d > 0), *)
(*                   t = "inf" (n = 1: Infinity, n = -1: -Infinity),       *)
(*                   t = "nan"                                             *)
(*   k = "string"    text: t = "fin" the numeral of n/d, t = "inf" the     *)
(*                   text Infinity / -Infinity, t = "nan" the text NaN,    *)
(*                   t = "junk" text that is no numeral, t = "empty" ''    *)
(*   k = "big"       a Big object, always t = "fin"                        *)
(*   k = "undefined" an absent argument                                    *)
(* A thrown error is [k |-> "error"], a Vector object is                   *)
(* [k |-> "vector", _x, _y, operatorSystem].                               *)
(* Finite values are rationals.  A native number is a multiple of          *)
(* 1/FloatDen (a binary fraction): Number(x) and every native operation    *)
(* round to the nearest one, so a decimal such as 0.2 is not exact as a    *)
(* number; overflow to Infinity is not modelled.  big.js is exact in plus, *)
(* minus and times and rounds div and sqrt to BigDP decimal places.        *)
(***************************************************************************)
EXTENDS Integers, Sequences, FiniteSets

VARIABLES SYSTEM, vecs, ret

vars == <<SYSTEM, vecs, ret>>

\* ------------------------------------------------------------- bounds
\* Number of Vector objects the caller keeps.
MaxVectors == 2
\* Largest integer coordinate of the vectors SpecValues starts from.
MaxCoord == 1
\* Bits after the binary point of a native number.
FloatBits == 4
\* Decimal places big.js keeps in div and sqrt (Big.DP).
BigDP == 2

FloatDen == 2 ^ FloatBits
BigDen == 10 ^ BigDP

\* ------------------------------------------------------------- values
Abs(i) == IF i < 0 THEN -i ELSE i

RECURSIVE Gcd(_, _)
Gcd(a, b) == IF b = 0 THEN a ELSE Gcd(b, a % b)

\* The rational n/d in lowest terms with a positive denominator.
Ratio(n, d) ==
  LET g == Gcd(Abs(n), Abs(d))
      s == IF d < 0 THEN -1 ELSE 1
  IN [n |-> (s * n) \div g, d |-> (s * d) \div g]

Val(kind, tag, n, d) == [k |-> kind, t |-> tag, n |-> n, d |-> d]
Fin(kind, n, d) == LET r == Ratio(n, d) IN Val(kind, "fin", r.n, r.d)

Num(n) == Fin("number", n, 1)
NaN == Val("number", "nan", 0, 0)
Infinity(sign) == Val("number", "inf", sign, 0)
Str(n) == Fin("string", n, 1)
EmptyStr == Val("string", "empty", 0, 0)
JunkStr == Val("string", "junk", 0, 0)
BigOf(n) == Fin("big", n, 1)
Undefined == Val("undefined", "none", 0, 0)
Error == [k |-> "error"]

IsError(v) == v.k = "error"
IsVector(v) == v.k = "vector"

Sign(n) == IF n < 0 THEN -1 ELSE 1

\* The multiple of 1/den nearest to n/d, halves away from zero.
RoundTo(n, d, den) ==
  Ratio(Sign(n) * ((2 * Abs(n) * den + d) \div (2 * d)), den)

\* Floor of the square root of a natural number.
RECURSIVE ISqrt(_)
ISqrt(m) ==
  IF m < 2 THEN m
  ELSE LET s == 2 * ISqrt(m \div 4)
       IN IF (s + 1) * (s + 1) <= m THEN s + 1 ELSE s

\* Square root of the rational n/d >= 0, rounded down to a multiple of
\* 1/den (exact when the root is such a multiple).
SqrtTo(n, d, den) == Ratio(ISqrt((n * den * den) \div d), den)

\* The native number nearest to n/d, and the Big nearest to n/d.
Float(n, d) ==
  LET r == RoundTo(n, d, FloatDen) IN Val("number", "fin", r.n, r.d)
Decimal(n, d) ==
  LET r == RoundTo(n, d, BigDen) IN Val("big", "fin", r.n, r.d)

\* ------------------------------------------- native number arithmetic
\* Number(x): a number is itself, text is parsed ('' is 0, no numeral is
\* NaN), a Big goes through its numeral, undefined is NaN.
ToNumber(x) ==
  CASE x.k = "number" -> x
    [] x.k = "big" -> Float(x.n, x.d)
    [] x.k = "string" ->
         CASE x.t = "fin" -> Float(x.n, x.d)
           [] x.t = "inf" -> Infinity(x.n)
           [] x.t = "empty" -> Num(0)
           [] OTHER -> NaN
    [] OTHER -> NaN

NumPlus(a, b) ==
  CASE a.t = "nan" \/ b.t = "nan" -> NaN
    [] a.t = "inf" /\ b.t = "inf" -> IF a.n = b.n THEN a ELSE NaN
    [] a.t = "inf" -> a
    [] b.t = "inf" -> b
    [] OTHER -> Float(a.n * b.d + b.n * a.d, a.d * b.d)

NumNegate(a) ==
  CASE a.t = "nan" -> NaN
    [] a.t = "inf" -> Infinity(-a.n)
    [] OTHER -> Fin("number", -a.n, a.d)

NumMinus(a, b) == NumPlus(a, NumNegate(b))

NumMultiply(a, b) ==
  CASE a.t = "nan" \/ b.t = "nan" -> NaN
    [] a.t = "inf" /\ b.t = "inf" -> Infinity(a.n * b.n)
    [] a.t = "inf" -> IF b.n = 0 THEN NaN ELSE Infinity(a.n * Sign(b.n))
    [] b.t = "inf" -> IF a.n = 0 THEN NaN ELSE Infinity(b.n * Sign(a.n))
    [] OTHER -> Float(a.n * b.n, a.d * b.d)

NumDivide(a, b) ==
  CASE a.t = "nan" \/ b.t = "nan" -> NaN
    [] a.t = "inf" /\ b.t = "inf" -> NaN
    [] a.t = "inf" -> Infinity(a.n * Sign(b.n))
    [] b.t = "inf" -> Num(0)
    [] b.n = 0 -> IF a.n = 0 THEN NaN ELSE Infinity(Sign(a.n))
    [] OTHER -> Float(a.n * b.d, a.d * b.n)

NumSqrt(a) ==
  CASE a.t = "nan" -> NaN
    [] a.t = "inf" -> IF a.n = 1 THEN a ELSE NaN
    [] a.n < 0 -> NaN
    [] OTHER -> LET r == SqrtTo(a.n, a.d, FloatDen)
                IN Val("number", "fin", r.n, r.d)

NumAbs(a) ==
  CASE a.t = "nan" -> NaN
    [] a.t = "inf" -> Infinity(1)
    [] OTHER -> Fin("number", Abs(a.n), a.d)

\* A boolean as a value.
Bool(b) == [k |-> "boolean", b |-> b]

\* x === y on numbers: NaN equals nothing.
NumEqual(a, b) == Bool(a.t # "nan" /\ b.t # "nan" /\ a = b)

\* ------------------------------------------------- big.js arithmetic
\* new Big(x): a finite number, a numeral or a Big; anything else throws.
ToBig(x) ==
  IF x.k \in {"number", "string", "big"} /\ x.t = "fin"
  THEN Val("big", "fin", x.n, x.d)
  ELSE Error

\* Both operands are acceptable to big.js.
BigOk(x, y) == ~IsError(ToBig(x)) /\ ~IsError(ToBig(y))

\* ---------------------------------------------------- operator systems
BaseOperatorSystem == "BaseOperatorSystem"
BigOperatorSystem == "BigOperatorSystem"
\* What the registry object yields for a key it only inherits
\* (OperatorSystem["constructor"]): truthy, and no operator system.
InheritedMember == "Object"
\* The operator-system instances a caller can pass or assign.
Systems == {BaseOperatorSystem, BigOperatorSystem}

\* BaseOperatorSystem: native arithmetic on Number(x), never throws.
BaseCreate(x) == ToNumber(x)
BasePlus(x, y) == NumPlus(ToNumber(x), ToNumber(y))
BaseMinus(x, y) == NumMinus(ToNumber(x), ToNumber(y))
BaseDivide(x, y) == NumDivide(ToNumber(x), ToNumber(y))
BaseMultiply(x, y) == NumMultiply(ToNumber(x), ToNumber(y))
BaseSqrt(x) == NumSqrt(ToNumber(x))
BaseAbs(x) == NumAbs(ToNumber(x))
BaseEqual(x, y) == NumEqual(ToNumber(x), ToNumber(y))

\* BigOperatorSystem: new Big(x).op(y); big.js throws on an operand that is
\* no finite number, on a zero divisor and on the root of a negative value.
BigCreate(x) == ToBig(x)
BigPlus(x, y) ==
  IF ~BigOk(x, y) THEN Error
  ELSE LET a == ToBig(x)  b == ToBig(y)
       IN Fin("big", a.n * b.d + b.n * a.d, a.d * b.d)
BigMinus(x, y) ==
  IF ~BigOk(x, y) THEN Error
  ELSE LET a == ToBig(x)  b == ToBig(y)
       IN Fin("big", a.n * b.d - b.n * a.d, a.d * b.d)
BigDivide(x, y) ==
  IF ~BigOk(x, y) THEN Error
  ELSE LET a == ToBig(x)  b == ToBig(y)
       IN IF b.n = 0 THEN Error ELSE Decimal(a.n * b.d, a.d * b.n)
BigMultiply(x, y) ==
  IF ~BigOk(x, y) THEN Error
  ELSE LET a == ToBig(x)  b == ToBig(y)
       IN Fin("big", a.n * b.n, a.d * b.d)
BigSqrt(x) ==
  IF IsError(ToBig(x)) THEN Error
  ELSE LET a == ToBig(x)
       IN IF a.n < 0 THEN Error
          ELSE LET r == SqrtTo(a.n, a.d, BigDen)
               IN Val("big", "fin", r.n, r.d)
BigAbs(x) ==
  IF IsError(ToBig(x)) THEN Error
  ELSE LET a == ToBig(x) IN Fin("big", Abs(a.n), a.d)
\* Big.eq: a boolean, or Error when big.js throws.
BigEqual(x, y) == IF ~BigOk(x, y) THEN Error ELSE Bool(ToBig(x) = ToBig(y))

\* The operation of operator system os: destructuring an operation out of
\* anything that is no operator system gives undefined, and calling it throws.
\* The inherited member Object does have a create: Object.create(x) throws
\* for a primitive and gives, for a Big, an object that inherits its digits
\* and its toString, kept here as that Big.
op_create(os, x) ==
  IF IsError(x) THEN Error
  ELSE CASE os = BaseOperatorSystem -> BaseCreate(x)
       [] os = BigOperatorSystem -> BigCreate(x)
       [] OTHER -> IF x.k = "big" THEN x ELSE Error
op_plus(os, x, y) ==
  IF IsError(x) \/ IsError(y) THEN Error
  ELSE CASE os = BaseOperatorSystem -> BasePlus(x, y)
       [] os = BigOperatorSystem -> BigPlus(x, y)
       [] OTHER -> Error
op_minus(os, x, y) ==
  IF IsError(x) \/ IsError(y) THEN Error
  ELSE CASE os = BaseOperatorSystem -> BaseMinus(x, y)
       [] os = BigOperatorSystem -> BigMinus(x, y)
       [] OTHER -> Error
op_divide(os, x, y) ==
  IF IsError(x) \/ IsError(y) THEN Error
  ELSE CASE os = BaseOperatorSystem -> BaseDivide(x, y)
       [] os = BigOperatorSystem -> BigDivide(x, y)
       [] OTHER -> Error
op_multiply(os, x, y) ==
  IF IsError(x) \/ IsError(y) THEN Error
  ELSE CASE os = BaseOperatorSystem -> BaseMultiply(x, y)
       [] os = BigOperatorSystem -> BigMultiply(x, y)
       [] OTHER -> Error
op_sqrt(os, x) ==
  IF IsError(x) THEN Error
  ELSE CASE os = BaseOperatorSystem -> BaseSqrt(x)
       [] os = BigOperatorSystem -> BigSqrt(x)
       [] OTHER -> Error
op_abs(os, x) ==
  IF IsError(x) THEN Error
  ELSE CASE os = BaseOperatorSystem -> BaseAbs(x)
       [] os = BigOperatorSystem -> BigAbs(x)
       [] OTHER -> Error
op_equal(os, x, y) ==
  IF IsError(x) \/ IsError(y) THEN Error
  ELSE CASE os = BaseOperatorSystem -> BaseEqual(x, y)
       [] os = BigOperatorSystem -> BigEqual(x, y)
       [] OTHER -> Error

\* Mutant of Registry: the keys are "native" and "precise".
RegistryNativePrecise(name) ==
  CASE name = "native" -> BaseOperatorSystem
    [] name = "precise" -> BigOperatorSystem
    [] name = "constructor" -> InheritedMember
    [] OTHER -> ""

\* The registry of operator systems by name (the module's default export);
\* "" stands for undefined.
Registry(name) ==
  CASE name = "base" -> BaseOperatorSystem
    [] name = "big" -> BigOperatorSystem
    [] name = "constructor" -> InheritedMember
    [] OTHER -> ""

\* ------------------------------------------------------------- Vector
\* JavaScript truthiness, as x || 0 uses it: 0, NaN, '' and undefined are
\* falsy; every object (a Big of value 0 too) is truthy.
Truthy(x) ==
  CASE x.k = "number" -> x.t = "inf" \/ (x.t = "fin" /\ x.n # 0)
    [] x.k = "string" -> x.t # "empty"
    [] x.k = "undefined" -> FALSE
    [] OTHER -> TRUE

\* value.toString(): the text of a number or of a Big; text is itself.
ToString(x) == Val("string", x.t, x.n, x.d)

\* new Vector(x, y): the instance initialiser reads Vector.SYSTEM, the
\* constructor stores x || 0 and y || 0.
NewVector(x, y) ==
  [k |-> "vector",
   _x |-> IF Truthy(x) THEN x ELSE Num(0),
   _y |-> IF Truthy(y) THEN y ELSE Num(0),
   operatorSystem |-> SYSTEM]

\* The getters x and y.
GetX(v) == ToString(v._x)
GetY(v) == ToString(v._y)

\* An array and an object as the factories receive them and as toArray
\* and toObject return them; a missing element or property is undefined.
Array(items) == [k |-> "array", items |-> items]
Obj(x, y) == [k |-> "object", props |-> [x |-> x, y |-> y]]

\* Mutant of fromArray: both coordinates are read from the first element.
fromArrayFirstElement(arr) ==
  IF arr.k = "undefined" THEN Error
  ELSE NewVector(IF Truthy(arr.items[1]) THEN arr.items[1] ELSE Num(0),
                 IF Truthy(arr.items[1]) THEN arr.items[1] ELSE Num(0))

\* Mutant of fromObject: the property is normalised through create.
fromObjectCreate(obj) ==
  IF obj.k = "undefined" THEN Error
  ELSE LET x == op_create(SYSTEM, obj.props.x)
           y == op_create(SYSTEM, obj.props.y)
       IN IF IsError(x) \/ IsError(y) THEN Error ELSE NewVector(x, y)

\* The static factories: reading an element of an absent array, or a
\* property of an absent object, throws.
fromArray(arr) ==
  IF arr.k = "undefined" THEN Error
  ELSE NewVector(IF Truthy(arr.items[1]) THEN arr.items[1] ELSE Num(0),
                 IF Truthy(arr.items[2]) THEN arr.items[2] ELSE Num(0))
fromObject(obj) ==
  IF obj.k = "undefined" THEN Error
  ELSE NewVector(IF Truthy(obj.props.x) THEN obj.props.x ELSE Num(0),
                 IF Truthy(obj.props.y) THEN obj.props.y ELSE Num(0))

\* isVector(vec) ? vec.x : vec, and the same for y.
ArgX(vec) == IF IsVector(vec) THEN GetX(vec) ELSE vec
ArgY(vec) == IF IsVector(vec) THEN GetY(vec) ELSE vec

\* new Vector(targetX, targetY) unless computing a target threw.
Build(targetX, targetY) ==
  IF IsError(targetX) \/ IsError(targetY) THEN Error
  ELSE NewVector(targetX, targetY)

\* receiver.method(vec) where the receiver expression may have thrown.
addX(v, vec) ==
  Build(op_plus(v.operatorSystem, GetX(v), ArgX(vec)), GetY(v))
addY(v, vec) ==
  Build(GetX(v), op_plus(v.operatorSystem, GetY(v), ArgY(vec)))
add(v, vec) ==
  LET t == addX(v, vec) IN IF IsError(t) THEN Error ELSE addY(t, vec)

subtractX(v, vec) ==
  Build(op_minus(v.operatorSystem, GetX(v), ArgX(vec)), GetY(v))
\* Mutant of subtractY: the Y step reads the x of a Vector argument.
subtractYFromArgX(v, vec) ==
  Build(GetX(v), op_minus(v.operatorSystem, GetY(v), ArgX(vec)))

subtractY(v, vec) ==
  Build(GetX(v), op_minus(v.operatorSystem, GetY(v), ArgY(vec)))
subtract(v, vec) ==
  LET t == subtractX(v, vec)
  IN IF IsError(t) THEN Error ELSE subtractY(t, vec)

divideX(v, vec) ==
  Build(op_divide(v.operatorSystem, GetX(v), ArgX(vec)), GetY(v))
divideY(v, vec) ==
  Build(GetX(v), op_divide(v.operatorSystem, GetY(v), ArgY(vec)))
divide(v, vec) ==
  LET t == divideX(v, vec) IN IF IsError(t) THEN Error ELSE divideY(t, vec)

multiplyX(v, vec) ==
  Build(op_multiply(v.operatorSystem, GetX(v), ArgX(vec)), GetY(v))
multiplyY(v, vec) ==
  Build(GetX(v), op_multiply(v.operatorSystem, GetY(v), ArgY(vec)))
\* Mutant of multiply: only the x coordinate is scaled.
multiplyOnlyX(v, vec) == multiplyX(v, vec)

multiply(v, vec) ==
  LET t == multiplyX(v, vec)
  IN IF IsError(t) THEN Error ELSE multiplyY(t, vec)

invertX(v) == multiplyX(v, Num(-1))
invertY(v) == multiplyY(v, Num(-1))
invert(v) == multiply(v, Num(-1))

\* result.toString() of an operator-system result that may have thrown.
Text(r) == IF IsError(r) THEN Error ELSE ToString(r)

\* The getters lengthSq and length: text, or Error when the operator
\* system throws.
lengthSq(v) ==
  LET os == v.operatorSystem
  IN Text(op_plus(os, op_multiply(os, GetX(v), GetX(v)),
                      op_multiply(os, GetY(v), GetY(v))))
length(v) == Text(op_sqrt(v.operatorSystem, lengthSq(v)))

normalize(v) ==
  LET len == length(v) IN IF IsError(len) THEN Error ELSE divide(v, len)
norm(v) == normalize(v)

\* Math.cos and Math.sin of an angle of q quarter turns (q * PI / 2); the
\* residue of the native result at the zeros (6e-17) is not modelled.
Cos(q) == Num(CASE q % 4 = 0 -> 1 [] q % 4 = 2 -> -1 [] OTHER -> 0)
Sin(q) == Num(CASE q % 4 = 1 -> 1 [] q % 4 = 3 -> -1 [] OTHER -> 0)

rotate(v, angle) ==
  LET os == v.operatorSystem
      nx == op_minus(os, op_multiply(os, GetX(v), Cos(angle)),
                         op_multiply(os, GetY(v), Sin(angle)))
      ny == op_plus(os, op_multiply(os, GetX(v), Sin(angle)),
                        op_multiply(os, GetY(v), Cos(angle)))
  IN Build(nx, ny)

\* degree2radian(degree, divide) of ./util, with degree = 90 * q: the angle
\* of q quarter turns as the operator system's divide returns it.
degree2radian(os, q) ==
  LET r == op_divide(os, Num(q), Num(1)) IN IF IsError(r) THEN Error ELSE r

rotateDegree(v, degree) ==
  LET angle == degree2radian(v.operatorSystem, degree)
  IN IF IsError(angle) THEN Error ELSE rotate(v, angle.n)

dot(v, vec2) ==
  LET os == v.operatorSystem
  IN Text(op_plus(os, op_multiply(os, GetX(v), GetX(vec2)),
                      op_multiply(os, GetY(v), GetY(vec2))))

\* Mutant of cross: the two products are added.
crossSum(v, vec2) ==
  LET os == v.operatorSystem
  IN Text(op_plus(os, op_multiply(os, GetX(v), GetY(vec2)),
                      op_multiply(os, GetY(v), GetX(vec2))))

cross(v, vec2) ==
  LET os == v.operatorSystem
  IN Text(op_minus(os, op_multiply(os, GetX(v), GetY(vec2)),
                       op_multiply(os, GetY(v), GetX(vec2))))

projectOnto(v, vec2) ==
  LET os == v.operatorSystem
      coeff == op_divide(os, dot(v, vec2), lengthSq(vec2))
  IN Build(op_multiply(os, coeff, GetX(vec2)),
           op_multiply(os, coeff, GetY(vec2)))

distanceX(v, vec) == Text(op_minus(v.operatorSystem, GetX(v), GetX(vec)))
absDistanceX(v, vec) == Text(op_abs(v.operatorSystem, distanceX(v, vec)))
distanceY(v, vec) == Text(op_minus(v.operatorSystem, GetY(v), GetY(vec)))
absDistanceY(v, vec) == Text(op_abs(v.operatorSystem, distanceY(v, vec)))
distanceSq(v, vec) ==
  LET os == v.operatorSystem
      dx == distanceX(v, vec)
      dy == distanceY(v, vec)
  IN Text(op_plus(os, op_multiply(os, dx, dx), op_multiply(os, dy, dy)))
distance(v, vec) == Text(op_sqrt(v.operatorSystem, distanceSq(v, vec)))

\* a && b where a and b are booleans or Error: b is evaluated only when a
\* is true.
AndThen(a, b) == IF IsError(a) THEN Error ELSE IF a.b THEN b ELSE a

isZero(v) ==
  AndThen(op_equal(v.operatorSystem, GetX(v), Num(0)),
          op_equal(v.operatorSystem, GetY(v), Num(0)))
isEqualTo(v, vec2) ==
  AndThen(op_equal(v.operatorSystem, GetX(v), GetX(vec2)),
          op_equal(v.operatorSystem, GetY(v), GetY(vec2)))

\* 'x:' + this.x + ', y:' + this.y, kept as its two parts.
toString(v) == [k |-> "text", x |-> GetX(v), y |-> GetY(v)]
toArray(v) == Array(<<GetX(v), GetY(v)>>)
toObject(v) == Obj(GetX(v), GetY(v))

\* Mutant of config: an unknown name falls back to BigOperatorSystem.
configFallbackBig(v, opt) ==
  LET system == IF opt.k = "undefined"
                THEN [k |-> "instance", name |-> BigOperatorSystem]
                ELSE opt
  IN [v EXCEPT !.operatorSystem =
        IF system.k = "string"
        THEN IF Registry(system.name) # "" THEN Registry(system.name)
             ELSE BigOperatorSystem
        ELSE system.name]

\* config({ system = BigOperatorSystem }): the vector with its operator
\* system replaced.  opt is { system: <name> } ([k |-> "string"]),
\* { system: <instance> } ([k |-> "instance"]) or {} ([k |-> "undefined"]).
config(v, opt) ==
  LET system == IF opt.k = "undefined"
                THEN [k |-> "instance", name |-> BigOperatorSystem]
                ELSE opt
  IN [v EXCEPT !.operatorSystem =
        IF system.k = "string"
        THEN IF Registry(system.name) # "" THEN Registry(system.name)
             ELSE SYSTEM
        ELSE system.name]

\* ------------------------------------------------------------- inputs
\* Coordinates handed to the constructor and the factories.
CoordArgs == {Undefined, Num(0), Num(1)}
\* Scalars handed to the manipulation methods.
ScalarArgs == {Num(0), Num(1)}
\* Values assigned through the setters.
SetterArgs == {NaN, Str(1)}
\* Angles, in quarter turns.
Angles == 0..3
\* Options handed to config.
SystemNames == {"base", "big", "native", "precise", "constructor"}
ConfigArgs ==
  {[k |-> "string", name |-> nm] : nm \in SystemNames}
    \cup {[k |-> "instance", name |-> os] : os \in Systems}
    \cup {[k |-> "undefined", name |-> ""]}

Void == [k |-> "void"]
\* No argument.
None == [k |-> "none"]

\* The last call, its receiver (an index of vecs, 0 for a static call), its
\* argument and what it returned (Error: it threw).
Ret(op, self, arg, out) == [op |-> op, self |-> self, arg |-> arg, out |-> out]

\* No call has returned a value the caller has yet to take.
Idle == ret.op = ""

\* ---------------------------------------------------------------- Init
Init ==
  /\ SYSTEM = BigOperatorSystem
  /\ vecs = <<>>
  /\ ret = Ret("", 0, None, Void)

\* -------------------------------------------------------------- actions
\* Mutant of SetSYSTEM: the instances read the static field instead of
\* holding their own reference.
SetSYSTEMShared(os) ==
  /\ Idle
  /\ SYSTEM' = os
  /\ vecs' = [i \in DOMAIN vecs |-> [vecs[i] EXCEPT !.operatorSystem = os]]
  /\ ret' = Ret("SYSTEM", 0, [k |-> "instance", name |-> os], Void)

\* Vector.SYSTEM = os
SetSYSTEM(os) ==
  /\ Idle
  /\ SYSTEM' = os
  /\ ret' = Ret("SYSTEM", 0, [k |-> "instance", name |-> os], Void)
  /\ UNCHANGED vecs

New(x, y) ==
  /\ Idle
  /\ ret' = Ret("new", 0, <<x, y>>, NewVector(x, y))
  /\ UNCHANGED <<SYSTEM, vecs>>

FromArray(arr) ==
  /\ Idle
  /\ ret' = Ret("fromArray", 0, arr, fromArray(arr))
  /\ UNCHANGED <<SYSTEM, vecs>>

FromObject(obj) ==
  /\ Idle
  /\ ret' = Ret("fromObject", 0, obj, fromObject(obj))
  /\ UNCHANGED <<SYSTEM, vecs>>

\* The caller keeps the Vector it has just constructed.  What a method
\* returns is inspected through ret and then dropped: a Vector with the same
\* fields can be constructed directly.
Keep ==
  /\ ret.op \in {"new", "fromArray", "fromObject"}
  /\ Len(vecs) < MaxVectors
  /\ vecs' = Append(vecs, ret.out)
  /\ ret' = Ret("", 0, None, Void)
  /\ UNCHANGED SYSTEM

\* The caller drops what the last call returned, or catches what it threw.
Discard ==
  /\ ~Idle
  /\ ret' = Ret("", 0, None, Void)
  /\ UNCHANGED <<SYSTEM, vecs>>

\* Mutant of Config: the operator system is also written to Vector.SYSTEM.
ConfigSetsDefault(i, opt) ==
  /\ Idle
  /\ vecs' = [vecs EXCEPT ![i] = config(vecs[i], opt)]
  /\ SYSTEM' = IF vecs'[i].operatorSystem \in Systems
               THEN vecs'[i].operatorSystem ELSE SYSTEM
  /\ ret' = Ret("config", i, opt, Void)

Config(i, opt) ==
  /\ Idle
  /\ vecs' = [vecs EXCEPT ![i] = config(vecs[i], opt)]
  /\ ret' = Ret("config", i, opt, Void)
  /\ UNCHANGED SYSTEM

\* Mutant of SetX: the value is stored as given, without create.
SetXAsGiven(i, a) ==
  /\ Idle
  /\ vecs' = [vecs EXCEPT ![i]._x = a]
  /\ ret' = Ret("set x", i, a, Void)
  /\ UNCHANGED SYSTEM

\* vecs[i].x = a: nothing is assigned when create throws.
SetX(i, a) ==
  LET c == op_create(vecs[i].operatorSystem, a)
  IN /\ Idle
     /\ vecs' = IF IsError(c) THEN vecs ELSE [vecs EXCEPT ![i]._x = c]
     /\ ret' = Ret("set x", i, a, IF IsError(c) THEN Error ELSE Void)
     /\ UNCHANGED SYSTEM

SetY(i, a) ==
  LET c == op_create(vecs[i].operatorSystem, a)
  IN /\ Idle
     /\ vecs' = IF IsError(c) THEN vecs ELSE [vecs EXCEPT ![i]._y = c]
     /\ ret' = Ret("set y", i, a, IF IsError(c) THEN Error ELSE Void)
     /\ UNCHANGED SYSTEM

\* Mutant of AddX: the sum is written into the receiver, which is returned.
AddXInPlace(i, vec) ==
  LET t == op_plus(vecs[i].operatorSystem, GetX(vecs[i]), ArgX(vec))
  IN /\ Idle
     /\ vecs' = IF IsError(t) THEN vecs ELSE [vecs EXCEPT ![i]._x = t]
     /\ ret' = Ret("addX", i, vec, IF IsError(t) THEN Error ELSE vecs'[i])
     /\ UNCHANGED SYSTEM

\* The manipulation methods: each returns a new Vector, or throws.
AddX(i, vec) ==
  /\ Idle
  /\ ret' = Ret("addX", i, vec, addX(vecs[i], vec))
  /\ UNCHANGED <<SYSTEM, vecs>>

AddY(i, vec) ==
  /\ Idle
  /\ ret' = Ret("addY", i, vec, addY(vecs[i], vec))
  /\ UNCHANGED <<SYSTEM, vecs>>

Add(i, vec) ==
  /\ Idle
  /\ ret' = Ret("add", i, vec, add(vecs[i], vec))
  /\ UNCHANGED <<SYSTEM, vecs>>

SubtractX(i, vec) ==
  /\ Idle
  /\ ret' = Ret("subtractX", i, vec, subtractX(vecs[i], vec))
  /\ UNCHANGED <<SYSTEM, vecs>>

SubtractY(i, vec) ==
  /\ Idle
  /\ ret' = Ret("subtractY", i, vec, subtractY(vecs[i], vec))
  /\ UNCHANGED <<SYSTEM, vecs>>

Subtract(i, vec) ==
  /\ Idle
  /\ ret' = Ret("subtract", i, vec, subtract(vecs[i], vec))
  /\ UNCHANGED <<SYSTEM, vecs>>

DivideX(i, vec) ==
  /\ Idle
  /\ ret' = Ret("divideX", i, vec, divideX(vecs[i], vec))
  /\ UNCHANGED <<SYSTEM, vecs>>

DivideY(i, vec) ==
  /\ Idle
  /\ ret' = Ret("divideY", i, vec, divideY(vecs[i], vec))
  /\ UNCHANGED <<SYSTEM, vecs>>

Divide(i, vec) ==
  /\ Idle
  /\ ret' = Ret("divide", i, vec, divide(vecs[i], vec))
  /\ UNCHANGED <<SYSTEM, vecs>>

MultiplyX(i, vec) ==
  /\ Idle
  /\ ret' = Ret("multiplyX", i, vec, multiplyX(vecs[i], vec))
  /\ UNCHANGED <<SYSTEM, vecs>>

MultiplyY(i, vec) ==
  /\ Idle
  /\ ret' = Ret("multiplyY", i, vec, multiplyY(vecs[i], vec))
  /\ UNCHANGED <<SYSTEM, vecs>>

Multiply(i, vec) ==
  /\ Idle
  /\ ret' = Ret("multiply", i, vec, multiply(vecs[i], vec))
  /\ UNCHANGED <<SYSTEM, vecs>>

InvertX(i) ==
  /\ Idle
  /\ ret' = Ret("invertX", i, None, invertX(vecs[i]))
  /\ UNCHANGED <<SYSTEM, vecs>>

InvertY(i) ==
  /\ Idle
  /\ ret' = Ret("invertY", i, None, invertY(vecs[i]))
  /\ UNCHANGED <<SYSTEM, vecs>>

Invert(i) ==
  /\ Idle
  /\ ret' = Ret("invert", i, None, invert(vecs[i]))
  /\ UNCHANGED <<SYSTEM, vecs>>

Normalize(i) ==
  /\ Idle
  /\ ret' = Ret("normalize", i, None, normalize(vecs[i]))
  /\ UNCHANGED <<SYSTEM, vecs>>

Norm(i) ==
  /\ Idle
  /\ ret' = Ret("norm", i, None, norm(vecs[i]))
  /\ UNCHANGED <<SYSTEM, vecs>>

Rotate(i, angle) ==
  /\ Idle
  /\ ret' = Ret("rotate", i, Num(angle), rotate(vecs[i], angle))
  /\ UNCHANGED <<SYSTEM, vecs>>

RotateDegree(i, angle) ==
  /\ Idle
  /\ ret' = Ret("rotateDegree", i, Num(angle), rotateDegree(vecs[i], angle))
  /\ UNCHANGED <<SYSTEM, vecs>>

\* The products, distances and predicates: text or a boolean, or a throw.
Dot(i, vec2) ==
  /\ Idle
  /\ ret' = Ret("dot", i, vec2, dot(vecs[i], vec2))
  /\ UNCHANGED <<SYSTEM, vecs>>

Cross(i, vec2) ==
  /\ Idle
  /\ ret' = Ret("cross", i, vec2, cross(vecs[i], vec2))
  /\ UNCHANGED <<SYSTEM, vecs>>

ProjectOnto(i, vec2) ==
  /\ Idle
  /\ ret' = Ret("projectOnto", i, vec2, projectOnto(vecs[i], vec2))
  /\ UNCHANGED <<SYSTEM, vecs>>

DistanceX(i, vec2) ==
  /\ Idle
  /\ ret' = Ret("distanceX", i, vec2, distanceX(vecs[i], vec2))
  /\ UNCHANGED <<SYSTEM, vecs>>

AbsDistanceX(i, vec2) ==
  /\ Idle
  /\ ret' = Ret("absDistanceX", i, vec2, absDistanceX(vecs[i], vec2))
  /\ UNCHANGED <<SYSTEM, vecs>>

DistanceY(i, vec2) ==
  /\ Idle
  /\ ret' = Ret("distanceY", i, vec2, distanceY(vecs[i], vec2))
  /\ UNCHANGED <<SYSTEM, vecs>>

AbsDistanceY(i, vec2) ==
  /\ Idle
  /\ ret' = Ret("absDistanceY", i, vec2, absDistanceY(vecs[i], vec2))
  /\ UNCHANGED <<SYSTEM, vecs>>

Distance(i, vec2) ==
  /\ Idle
  /\ ret' = Ret("distance", i, vec2, distance(vecs[i], vec2))
  /\ UNCHANGED <<SYSTEM, vecs>>

DistanceSq(i, vec2) ==
  /\ Idle
  /\ ret' = Ret("distanceSq", i, vec2, distanceSq(vecs[i], vec2))
  /\ UNCHANGED <<SYSTEM, vecs>>

IsEqualTo(i, vec2) ==
  /\ Idle
  /\ ret' = Ret("isEqualTo", i, vec2, isEqualTo(vecs[i], vec2))
  /\ UNCHANGED <<SYSTEM, vecs>>

IsZero(i) ==
  /\ Idle
  /\ ret' = Ret("isZero", i, None, isZero(vecs[i]))
  /\ UNCHANGED <<SYSTEM, vecs>>

\* The getters.
X(i) ==
  /\ Idle
  /\ ret' = Ret("x", i, None, GetX(vecs[i]))
  /\ UNCHANGED <<SYSTEM, vecs>>

Y(i) ==
  /\ Idle
  /\ ret' = Ret("y", i, None, GetY(vecs[i]))
  /\ UNCHANGED <<SYSTEM, vecs>>

LengthSq(i) ==
  /\ Idle
  /\ ret' = Ret("lengthSq", i, None, lengthSq(vecs[i]))
  /\ UNCHANGED <<SYSTEM, vecs>>

Length(i) ==
  /\ Idle
  /\ ret' = Ret("length", i, None, length(vecs[i]))
  /\ UNCHANGED <<SYSTEM, vecs>>

\* The views.
ToStringCall(i) ==
  /\ Idle
  /\ ret' = Ret("toString", i, None, toString(vecs[i]))
  /\ UNCHANGED <<SYSTEM, vecs>>

ToArray(i) ==
  /\ Idle
  /\ ret' = Ret("toArray", i, None, toArray(vecs[i]))
  /\ UNCHANGED <<SYSTEM, vecs>>

ToObject(i) ==
  /\ Idle
  /\ ret' = Ret("toObject", i, None, toObject(vecs[i]))
  /\ UNCHANGED <<SYSTEM, vecs>>

\* The Vectors a caller can call a method on: the ones it holds, once it
\* is done with what the last call returned.
Receivers == IF Idle THEN DOMAIN vecs ELSE {}
\* The Vector objects a caller can hand to a method.
Vectors == {vecs[j] : j \in DOMAIN vecs}
\* What a caller can hand to a method that takes a Vector or a scalar.
VectorOperands == ScalarArgs \cup Vectors

Next ==
  \/ \E os \in Systems : SetSYSTEM(os)
  \/ \E x \in CoordArgs, y \in CoordArgs : New(x, y)
  \/ \E x \in CoordArgs, y \in CoordArgs : FromArray(Array(<<x, y>>))
  \/ \E x \in CoordArgs, y \in CoordArgs : FromObject(Obj(x, y))
  \/ Keep
  \/ Discard
  \/ \E i \in Receivers, opt \in ConfigArgs : Config(i, opt)
  \/ \E i \in Receivers, vec \in VectorOperands : AddX(i, vec)
  \/ \E i \in Receivers, vec \in VectorOperands : AddY(i, vec)
  \/ \E i \in Receivers, vec \in VectorOperands : Add(i, vec)
  \/ \E i \in Receivers, vec \in VectorOperands : SubtractX(i, vec)
  \/ \E i \in Receivers, vec \in VectorOperands : SubtractY(i, vec)
  \/ \E i \in Receivers, vec \in VectorOperands : Subtract(i, vec)
  \/ \E i \in Receivers, vec \in VectorOperands : DivideX(i, vec)
  \/ \E i \in Receivers, vec \in VectorOperands : DivideY(i, vec)
  \/ \E i \in Receivers, vec \in VectorOperands : Divide(i, vec)
  \/ \E i \in Receivers, vec \in VectorOperands : MultiplyX(i, vec)
  \/ \E i \in Receivers, vec \in VectorOperands : MultiplyY(i, vec)
  \/ \E i \in Receivers, vec \in VectorOperands : Multiply(i, vec)
  \/ \E i \in Receivers : InvertX(i)
  \/ \E i \in Receivers : InvertY(i)
  \/ \E i \in Receivers : Invert(i)
  \/ \E i \in Receivers : Normalize(i)
  \/ \E i \in Receivers : Norm(i)
  \/ \E i \in Receivers, angle \in Angles : Rotate(i, angle)
  \/ \E i \in Receivers, angle \in Angles : RotateDegree(i, angle)
  \/ \E i \in Receivers, vec2 \in Vectors : Dot(i, vec2)
  \/ \E i \in Receivers, vec2 \in Vectors : Cross(i, vec2)
  \/ \E i \in Receivers, vec2 \in Vectors : ProjectOnto(i, vec2)
  \/ \E i \in Receivers, vec2 \in Vectors : DistanceX(i, vec2)
  \/ \E i \in Receivers, vec2 \in Vectors : AbsDistanceX(i, vec2)
  \/ \E i \in Receivers, vec2 \in Vectors : DistanceY(i, vec2)
  \/ \E i \in Receivers, vec2 \in Vectors : AbsDistanceY(i, vec2)
  \/ \E i \in Receivers, vec2 \in Vectors : Distance(i, vec2)
  \/ \E i \in Receivers, vec2 \in Vectors : DistanceSq(i, vec2)
  \/ \E i \in Receivers, vec2 \in Vectors : IsEqualTo(i, vec2)
  \/ \E i \in Receivers : IsZero(i)
  \/ \E i \in Receivers : X(i)
  \/ \E i \in Receivers : Y(i)
  \/ \E i \in Receivers : LengthSq(i)
  \/ \E i \in Receivers : Length(i)
  \/ \E i \in Receivers : ToStringCall(i)
  \/ \E i \in Receivers : ToArray(i)
  \/ \E i \in Receivers : ToObject(i)

Spec == Init /\ [][Next]_vars

\* ---------------------------------------------------------- SpecValues
\* The caller already holds two Vectors, with coordinates of every kind a
\* Vector can store: numbers (zero included), Infinity, NaN (assigned
\* through a setter on the native system), a Big, and a decimal numeral
\* with more digits than a native number holds: here 1/5, which is no
\* multiple of 1/FloatDen.
ValueCoords ==
  {Num(n) : n \in 0..MaxCoord}
    \cup {Infinity(1), NaN, Fin("string", 1, 5), BigOf(MaxCoord)}
\* The first Vector may have been configured by any name, the second has
\* one of the two operator systems.
ValueVectors(systems) ==
  {[k |-> "vector", _x |-> x, _y |-> y, operatorSystem |-> os] :
     x \in ValueCoords, y \in ValueCoords, os \in systems}

InitValues ==
  /\ SYSTEM \in Systems
  /\ vecs \in {<<a, b>> : a \in ValueVectors(Systems \cup {InheritedMember}),
                          b \in ValueVectors(Systems)}
  /\ ret = Ret("", 0, None, Void)

\* The calls of the algebraic laws: the arrays and objects handed to the
\* factories are the ones toArray and toObject return.
NextValues ==
  \/ \E i \in Receivers : ToArray(i)
  \/ \E i \in Receivers : ToObject(i)
  \/ \E i \in Receivers : FromArray(toArray(vecs[i]))
  \/ \E i \in Receivers : FromObject(toObject(vecs[i]))
  \/ \E i \in Receivers, vec \in ScalarArgs : Multiply(i, vec)
  \/ \E i \in Receivers, vec2 \in Vectors : Cross(i, vec2)
  \/ Discard

SpecValues == InitValues /\ [][NextValues]_vars

\* ---------------------------------------------------------- SpecBinary
\* The caller holds two Vectors with coordinates of every kind, each on one
\* of the two operator systems, and calls the twelve binary methods with a
\* scalar or with one of the Vectors.
InitBinary ==
  /\ SYSTEM \in Systems
  /\ vecs \in {<<a, b>> : a \in ValueVectors(Systems),
                          b \in ValueVectors({BaseOperatorSystem})}
  /\ ret = Ret("", 0, None, Void)

NextBinary ==
  \/ \E i \in Receivers, vec \in VectorOperands : AddX(i, vec)
  \/ \E i \in Receivers, vec \in VectorOperands : AddY(i, vec)
  \/ \E i \in Receivers, vec \in VectorOperands : Add(i, vec)
  \/ \E i \in Receivers, vec \in VectorOperands : SubtractX(i, vec)
  \/ \E i \in Receivers, vec \in VectorOperands : SubtractY(i, vec)
  \/ \E i \in Receivers, vec \in VectorOperands : Subtract(i, vec)
  \/ \E i \in Receivers, vec \in VectorOperands : DivideX(i, vec)
  \/ \E i \in Receivers, vec \in VectorOperands : DivideY(i, vec)
  \/ \E i \in Receivers, vec \in VectorOperands : Divide(i, vec)
  \/ \E i \in Receivers, vec \in VectorOperands : MultiplyX(i, vec)
  \/ \E i \in Receivers, vec \in VectorOperands : MultiplyY(i, vec)
  \/ \E i \in Receivers, vec \in VectorOperands : Multiply(i, vec)
  \/ Discard

SpecBinary == InitBinary /\ [][NextBinary]_vars

\* ---------------------------------------------------------- SpecCoords
\* Values assigned through the setters and handed to the constructor and
\* the factories: absent, falsy, invalid, text and Big values included.
AssignedValues ==
  SetterArgs \cup
    {Undefined, Num(0), Num(MaxCoord), Infinity(1), EmptyStr, JunkStr,
     Fin("string", 1, 5), BigOf(MaxCoord)}

\* What the factories are handed: an array or an object of such values, or
\* nothing.
ArrayArgs ==
  {Array(<<x, y>>) : x \in AssignedValues, y \in AssignedValues}
    \cup {Undefined}
ObjectArgs ==
  {Obj(x, y) : x \in AssignedValues, y \in AssignedValues}
    \cup {Undefined}

\* The caller holds one Vector, configured in any way, assigns to its
\* coordinates, reads them, reconfigures it, and constructs Vectors.
InitCoords ==
  /\ SYSTEM \in Systems
  /\ vecs \in {<<v>> : v \in ValueVectors(Systems \cup {InheritedMember})}
  /\ ret = Ret("", 0, None, Void)

NextCoords ==
  \/ \E i \in Receivers, a \in AssignedValues : SetX(i, a)
  \/ \E i \in Receivers, a \in AssignedValues : SetY(i, a)
  \/ \E i \in Receivers : X(i)
  \/ \E i \in Receivers : Y(i)
  \/ \E i \in Receivers, opt \in ConfigArgs : Config(i, opt)
  \/ \E x \in AssignedValues, y \in AssignedValues : New(x, y)
  \/ \E arr \in ArrayArgs : FromArray(arr)
  \/ \E obj \in ObjectArgs : FromObject(obj)
  \/ Discard

SpecCoords == InitCoords /\ [][NextCoords]_vars

\* -------------------------------------------------------------- claims
\* The methods that return a Vector.
Manipulations ==
  {"addX", "addY", "add", "subtractX", "subtractY", "subtract",
   "divideX", "divideY", "divide", "multiplyX", "multiplyY", "multiply",
   "invertX", "invertY", "invert", "normalize", "norm", "rotate",
   "rotateDegree", "projectOnto"}
\* The methods that return text, a boolean, an array or an object.
Queries ==
  {"dot", "cross", "distanceX", "absDistanceX", "distanceY", "absDistanceY",
   "distance", "distanceSq", "isZero", "isEqualTo", "toString", "toArray",
   "toObject"}
Constructors == {"new", "fromArray", "fromObject"}
\* The receiver of the last call.
Self == vecs[ret.self]

\* C1: the Vector a manipulation method returns has the operator system of
\* the receiver.
C1_ReturnedVectorSharesSystem ==
  (ret.op \in Manipulations /\ IsVector(ret.out))
    => ret.out.operatorSystem = Self.operatorSystem

\* C2: assigning Vector.SYSTEM leaves every existing Vector's operator
\* system as it was, and a Vector constructed afterwards starts with the
\* value assigned.
C2_DefaultAffectsOnlyNewVectors ==
  [][/\ SYSTEM' # SYSTEM => vecs' = vecs
     /\ (ret'.op \in Constructors /\ ret' # ret)
          => ret'.out.operatorSystem = SYSTEM']_vars

\* C2 witness: Vector.SYSTEM was assigned the native system, a Vector held
\* before still has the big system, and a new Vector starts native.
C2_Witness ==
  /\ ret.op = "new"
  /\ SYSTEM = BaseOperatorSystem
  /\ ret.out.operatorSystem = BaseOperatorSystem
  /\ Len(vecs) >= 1
  /\ vecs[1].operatorSystem = BigOperatorSystem

\* The last call was config with the name nm.
ConfiguredByName(nm) ==
  ret.op = "config" /\ ret.arg.k = "string" /\ ret.arg.name = nm

\* C3 as stated: config with a name that is no key of the registry raises
\* no error and sets the operator system to BigOperatorSystem.
C3_UnknownNameFallsBackToBig ==
  \A nm \in SystemNames \ {"base", "big"} :
    ConfiguredByName(nm)
      => ret.out = Void /\ Self.operatorSystem = BigOperatorSystem

\* C3 amended: config with a name under which the registry object holds
\* nothing raises no error and sets the operator system to the current
\* value of Vector.SYSTEM.
C3_UnknownNameFallsBackToSYSTEM ==
  \A nm \in SystemNames :
    (ConfiguredByName(nm) /\ Registry(nm) = "")
      => ret.out = Void /\ Self.operatorSystem = SYSTEM

\* C3 witness: with Vector.SYSTEM native, config("native") leaves the
\* Vector native.
C3_Witness ==
  /\ ConfiguredByName("native")
  /\ SYSTEM = BaseOperatorSystem
  /\ Self.operatorSystem = BaseOperatorSystem

\* C4 as stated: config("native") selects the native system and
\* config("precise") the big system.
C4_RegistryNativePrecise ==
  /\ ConfiguredByName("native")
       => Self.operatorSystem = BaseOperatorSystem
  /\ ConfiguredByName("precise")
       => Self.operatorSystem = BigOperatorSystem

\* C4 amended: config("base") selects the native system and config("big")
\* the big system.
C4_RegistryBaseBig ==
  /\ ConfiguredByName("base") => Self.operatorSystem = BaseOperatorSystem
  /\ ConfiguredByName("big") => Self.operatorSystem = BigOperatorSystem

\* C4 witness: config("base") made a Vector native while Vector.SYSTEM is
\* the big system.
C4_Witness ==
  /\ ConfiguredByName("base")
  /\ SYSTEM = BigOperatorSystem
  /\ Self.operatorSystem = BaseOperatorSystem

Invalid(x) == ~IsError(x) /\ ToNumber(x).t \in {"nan", "inf"}
ZeroVector(v) == IsVector(v) /\ v._x = Num(0) /\ v._y = Num(0)

\* C6: divide by a zero vector: a receiver on the native system gets a
\* Vector whose x is not finite and no error; a receiver on the big system
\* gets an error.
C6_DivideByZeroVector ==
  (ret.op = "divide" /\ ZeroVector(ret.arg))
    => /\ Self.operatorSystem = BaseOperatorSystem
            => IsVector(ret.out) /\ Invalid(GetX(ret.out))
       /\ Self.operatorSystem = BigOperatorSystem => IsError(ret.out)

\* C7: when divideX on the native system computes NaN or an infinity, the
\* returned Vector carries that value as its x, comparing x with zero or
\* with the receiver's x is false, and multiplying it by one is not finite.
C7_InvalidValueIsCarried ==
  (/\ ret.op = "divideX"
   /\ Self.operatorSystem = BaseOperatorSystem
   /\ Invalid(BaseDivide(GetX(Self), ArgX(ret.arg))))
    => /\ IsVector(ret.out)
       /\ ret.out._x = BaseDivide(GetX(Self), ArgX(ret.arg))
       /\ BaseEqual(GetX(ret.out), Num(0)) = Bool(FALSE)
       /\ BaseEqual(GetX(ret.out), GetX(Self)) = Bool(FALSE)
       /\ Invalid(BaseMultiply(GetX(ret.out), Num(1)))

\* A stored coordinate that is a finite number, a decimal numeral or a Big.
FiniteCoord(x) == x.k \in {"number", "string", "big"} /\ x.t = "fin"
FiniteVector(v) == IsVector(v) /\ FiniteCoord(v._x) /\ FiniteCoord(v._y)

\* C8: for every held Vector v, Vector.fromArray(v.toArray()).isEqualTo(v)
\* and Vector.fromObject(v.toObject()).isEqualTo(v) are true.
C8_RoundTrip ==
  \A i \in DOMAIN vecs :
    /\ (ret.op = "fromArray" /\ ret.arg = toArray(vecs[i]))
         => isEqualTo(ret.out, vecs[i]) = Bool(TRUE)
    /\ (ret.op = "fromObject" /\ ret.arg = toObject(vecs[i]))
         => isEqualTo(ret.out, vecs[i]) = Bool(TRUE)

\* C8 (amended): for every held Vector v with finite coordinates, a zero
\* coordinate included, both round trips are equal to v.
C8_RoundTripFinite ==
  \A i \in DOMAIN vecs :
    FiniteVector(vecs[i]) =>
      /\ (ret.op = "fromArray" /\ ret.arg = toArray(vecs[i]))
           => isEqualTo(ret.out, vecs[i]) = Bool(TRUE)
      /\ (ret.op = "fromObject" /\ ret.arg = toObject(vecs[i]))
           => isEqualTo(ret.out, vecs[i]) = Bool(TRUE)

\* A round trip through toArray of a Vector with a zero and a non-zero
\* finite coordinate has been made.
C8_Witness ==
  /\ ret.op = "fromArray"
  /\ ret.arg = toArray(vecs[1])
  /\ FiniteVector(vecs[1])
  /\ vecs[1]._x = Num(0)
  /\ vecs[1]._y = Fin("string", 1, 5)
  /\ isEqualTo(ret.out, vecs[1]) = Bool(TRUE)

\* Text r1 is the negation of text r2: both are values, of opposite sign.
Negated(r1, r2) ==
  /\ ~IsError(r1)
  /\ ~IsError(r2)
  /\ r1.t \in {"fin", "inf"}
  /\ r1.t = r2.t
  /\ r1.n = -r2.n
  /\ r1.d = r2.d
ZeroText(r) == ~IsError(r) /\ r.t = "fin" /\ r.n = 0

C10_MultiplyOneAndZero ==
  /\ (ret.op = "multiply" /\ ret.arg = Num(1))
       => IsVector(ret.out) /\ isEqualTo(ret.out, Self) = Bool(TRUE)
  /\ (ret.op = "multiply" /\ ret.arg = Num(0))
       => IsVector(ret.out) /\ isZero(ret.out) = Bool(TRUE)

\* C10 (amended): the same, for v with finite coordinates whose operator
\* system is the one Vector.SYSTEM holds.
C10_MultiplyOneAndZeroFinite ==
  (/\ ret.op = "multiply"
   /\ FiniteVector(Self)
   /\ Self.operatorSystem = SYSTEM)
    => /\ ret.arg = Num(1)
            => IsVector(ret.out) /\ isEqualTo(ret.out, Self) = Bool(TRUE)
       /\ ret.arg = Num(0)
            => IsVector(ret.out) /\ isZero(ret.out) = Bool(TRUE)

\* A Vector with two non-zero finite coordinates has been multiplied by
\* zero and the result is the zero vector.
C10_Witness ==
  /\ ret.op = "multiply"
  /\ ret.arg = Num(0)
  /\ FiniteVector(Self)
  /\ Self.operatorSystem = SYSTEM
  /\ Self._x = Fin("string", 1, 5)
  /\ Self._y = Num(1)
  /\ IsVector(ret.out)
  /\ isZero(ret.out) = Bool(TRUE)

XMethods == {"addX", "subtractX", "multiplyX", "divideX"}
YMethods == {"addY", "subtractY", "multiplyY", "divideY"}
XYMethods == {"add", "subtract", "multiply", "divide"}
\* v.name(vec) for a binary method name.
Apply(name, v, vec) ==
  CASE name = "addX" -> addX(v, vec)
    [] name = "addY" -> addY(v, vec)
    [] name = "add" -> add(v, vec)
    [] name = "subtractX" -> subtractX(v, vec)
    [] name = "subtractY" -> subtractY(v, vec)
    [] name = "subtract" -> subtract(v, vec)
    [] name = "multiplyX" -> multiplyX(v, vec)
    [] name = "multiplyY" -> multiplyY(v, vec)
    [] name = "multiply" -> multiply(v, vec)
    [] name = "divideX" -> divideX(v, vec)
    [] name = "divideY" -> divideY(v, vec)
    [] name = "divide" -> divide(v, vec)
\* v.nameX(vec).nameY(vec) for a family name.
XThenY(name, v, vec) ==
  LET t == Apply(name \o "X", v, vec)
  IN IF IsError(t) THEN Error ELSE Apply(name \o "Y", t, vec)

C12_SetterStoresCreate ==
  [][ret'.op \in {"set x", "set y"} =>
       LET i == ret'.self
           c == op_create(vecs[i].operatorSystem, ret'.arg)
       IN /\ SYSTEM' = SYSTEM
          /\ IF IsError(c)
             THEN IsError(ret'.out) /\ vecs' = vecs
             ELSE /\ ~IsError(ret'.out)
                  /\ vecs'[i].operatorSystem = vecs[i].operatorSystem
                  /\ ret'.op = "set x" =>
                       /\ vecs'[i]._x = c
                       /\ GetX(vecs'[i]) = ToString(c)
                       /\ vecs'[i]._y = vecs[i]._y
                  /\ ret'.op = "set y" =>
                       /\ vecs'[i]._y = c
                       /\ GetY(vecs'[i]) = ToString(c)
                       /\ vecs'[i]._x = vecs[i]._x]_vars

\* A numeral has been assigned to x on the native system and the getter
\* has returned the text of the number it was converted to.
C12_Witness ==
  /\ ret.op = "x"
  /\ Self.operatorSystem = BaseOperatorSystem
  /\ Self._x = BaseCreate(Fin("string", 1, 5))
  /\ Self._x # Fin("string", 1, 5)
  /\ ret.out = ToString(BaseCreate(Fin("string", 1, 5)))

\* The two coordinate arguments of the last constructor or factory call.
GivenCoords ==
  CASE ret.op = "new" -> ret.arg
    [] ret.op = "fromArray" -> ret.arg.items
    [] ret.op = "fromObject" -> <<ret.arg.props.x, ret.arg.props.y>>
\* What is stored for an argument: the number 0 for an absent or falsy one
\* (undefined, 0, '', NaN), the argument itself otherwise.
StoredFor(a) == IF a \in {Undefined, Num(0), EmptyStr, NaN} THEN Num(0) ELSE a
ConstructedAsGiven ==
  /\ IsVector(ret.out)
  /\ ret.out._x = StoredFor(GivenCoords[1])
  /\ ret.out._y = StoredFor(GivenCoords[2])

\* C13: the constructor, fromArray and fromObject never raise and return a
\* Vector that holds 0 for each absent or falsy argument and every other
\* argument exactly as given.
C13_ConstructionNeverRaises == ret.op \in Constructors => ConstructedAsGiven

\* C13 (amended): the same, for the constructor and for the factories when
\* they are handed an array or an object.
C13_ConstructionFromContainer ==
  (/\ ret.op \in Constructors
   /\ ret.op = "new" \/ ret.arg.k # "undefined")
    => ConstructedAsGiven

\* With the big system as default, fromObject has stored text that is no
\* numeral as given and 0 for NaN.
C13_Witness ==
  /\ ret.op = "fromObject"
  /\ SYSTEM = BigOperatorSystem
  /\ ret.arg = Obj(JunkStr, NaN)
  /\ IsVector(ret.out)
  /\ ret.out._x = JunkStr
  /\ ret.out._y = Num(0)

\* C14: a step that changes the operator system of a Vector the caller
\* already holds is a config call on that Vector; a config call leaves the
\* receiver's coordinates, every other Vector and Vector.SYSTEM as they
\* were, and given an operator-system instance it makes the receiver use
\* that instance.
C14_ConfigFrame ==
  [][/\ \A j \in DOMAIN vecs :
          vecs'[j].operatorSystem # vecs[j].operatorSystem
            => ret'.op = "config" /\ ret'.self = j
     /\ ret'.op = "config" =>
          /\ SYSTEM' = SYSTEM
          /\ DOMAIN vecs' = DOMAIN vecs
          /\ vecs'[ret'.self]._x = vecs[ret'.self]._x
          /\ vecs'[ret'.self]._y = vecs[ret'.self]._y
          /\ \A j \in DOMAIN vecs : j # ret'.self => vecs'[j] = vecs[j]
          /\ ret'.arg.k = "instance"
               => vecs'[ret'.self].operatorSystem = ret'.arg.name]_vars

\* config with the native instance was called on the first of two Vectors
\* while Vector.SYSTEM and the second Vector are on the big system.
C14_Witness ==
  /\ ret.op = "config"
  /\ ret.self = 1
  /\ ret.arg = [k |-> "instance", name |-> BaseOperatorSystem]
  /\ Len(vecs) = 2
  /\ vecs[1].operatorSystem = BaseOperatorSystem
  /\ vecs[2].operatorSystem = BigOperatorSystem
  /\ SYSTEM = BigOperatorSystem

====
